---- MODULE Spec2Model ----
(***************************************************************************)
(* Model of the autocrop-vertical reframing pipeline:                      *)
(*   src/processor.py  geometry, strategy selection, process_video         *)
(*   src/tasks.py      process_video_task (the worker around it)           *)
(*                                                                         *)
(* Numbers.  ASPECT_RATIO is the float 9/16 = 0.5625, which is exact in    *)
(* binary, so h * ASPECT_RATIO is exact for the heights used here and      *)
(* int(h * ASPECT_RATIO) is floor(9h / 16).  Box centres and half widths   *)
(* are multiples of 1/2; they are kept doubled, and Python's int(), which  *)
(* truncates toward zero, is TruncHalf on the doubled value.               *)
(***************************************************************************)
EXTENDS Integers, Sequences, FiniteSets

\* ---------------------------------------------------------------- bounds
MaxFrames == 4
MaxScenes == 2
MaxSubjects == 3
MaxWidth == 12
StdinCapacity == 1
StderrCapacity == 1
\* Frames of the long source whose frame loop reaches a progress report.
LongSource == 100
\* Largest source height of the direct calls of the output size.
MaxHeight == 40

\* ------------------------------------------------------ program constants
ASPECT_NUM == 9
ASPECT_DEN == 16
ProgressEvery == 100
TOTAL_STEPS == 5

None == <<>>

\* ------------------------------------------------------------- arithmetic
\* Python int() of n/2: truncation toward zero.
TruncHalf(n) == IF n >= 0 THEN n \div 2 ELSE -((-n) \div 2)

\* Python a // b for b > 0: floor division.
FloorDiv(a, b) == a \div b

Min2(a, b) == IF a <= b THEN a ELSE b
Max2(a, b) == IF a >= b THEN a ELSE b

SetMin(S) == CHOOSE x \in S : \A y \in S : x <= y
SetMax(S) == CHOOSE x \in S : \A y \in S : x >= y

\* Number of indices selected by the Python slice [start:stop] on an axis of
\* length n (negative indices count from the end, out-of-range ones are
\* clipped).
SliceIndex(k, n) == IF k < 0 THEN Max2(k + n, 0) ELSE Min2(k, n)
SliceLen(start, stop, n) == Max2(SliceIndex(stop, n) - SliceIndex(start, n), 0)

\* ---------------------------------------------------------------- geometry
\* processor.get_enclosing_box
get_enclosing_box(boxes) ==
    IF Len(boxes) = 0 THEN None
    ELSE << SetMin({boxes[k][1] : k \in 1..Len(boxes)}),
            SetMin({boxes[k][2] : k \in 1..Len(boxes)}),
            SetMax({boxes[k][3] : k \in 1..Len(boxes)}),
            SetMax({boxes[k][4] : k \in 1..Len(boxes)}) >>

\* crop_width = int(crop_height * ASPECT_RATIO)
CropWidth(frame_height) == FloorDiv(frame_height * ASPECT_NUM, ASPECT_DEN)

\* The comparison with <= in place of <.
GroupFitsMut(group_width, frame_height) ==
    group_width * ASPECT_DEN <= frame_height * ASPECT_NUM

\* group_width < frame_height * ASPECT_RATIO, over the integers.
GroupFits(group_width, frame_height) ==
    group_width * ASPECT_DEN < frame_height * ASPECT_NUM

\* The single subject's person box, its face box ignored.
SingleTargetMut(subject) == subject.person_box

\* scene_analysis[0]['face_box'] or scene_analysis[0]['person_box']
SingleTarget(subject) ==
    IF subject.face_box # None THEN subject.face_box ELSE subject.person_box

\* decide_cropping_strategy returning the group box with LETTERBOX too.
decide_cropping_strategyMut(scene_analysis, frame_height) ==
    IF Len(scene_analysis) = 0 THEN << "LETTERBOX", None >>
    ELSE IF Len(scene_analysis) = 1
         THEN << "TRACK", SingleTarget(scene_analysis[1]) >>
    ELSE LET person_boxes == [k \in 1..Len(scene_analysis) |->
                                 scene_analysis[k].person_box]
             group_box == get_enclosing_box(person_boxes)
             group_width == group_box[3] - group_box[1]
         IN  IF GroupFits(group_width, frame_height)
             THEN << "TRACK", group_box >>
             ELSE << "LETTERBOX", group_box >>

\* processor.decide_cropping_strategy: <<strategy, target_box>>
decide_cropping_strategy(scene_analysis, frame_height) ==
    IF Len(scene_analysis) = 0 THEN << "LETTERBOX", None >>
    ELSE IF Len(scene_analysis) = 1
         THEN << "TRACK", SingleTarget(scene_analysis[1]) >>
    ELSE LET person_boxes == [k \in 1..Len(scene_analysis) |->
                                 scene_analysis[k].person_box]
             group_box == get_enclosing_box(person_boxes)
             group_width == group_box[3] - group_box[1]
         IN  IF GroupFits(group_width, frame_height)
             THEN << "TRACK", group_box >>
             ELSE << "LETTERBOX", None >>

\* calculate_crop_box without the shift back from the right edge.
calculate_crop_boxMut(target_box, frame_width, frame_height) ==
    LET center2 == target_box[1] + target_box[3]
        crop_width == CropWidth(frame_height)
        x1a == TruncHalf(center2 - crop_width)
        x2a == TruncHalf(center2 + crop_width)
    IN  << IF x1a < 0 THEN 0 ELSE x1a, 0,
           IF x1a < 0 THEN crop_width ELSE x2a, frame_height >>

\* processor.calculate_crop_box: <<x1, y1, x2, y2>>
calculate_crop_box(target_box, frame_width, frame_height) ==
    LET center2 == target_box[1] + target_box[3]
        crop_width == CropWidth(frame_height)
        x1a == TruncHalf(center2 - crop_width)
        x2a == TruncHalf(center2 + crop_width)
        x1b == IF x1a < 0 THEN 0 ELSE x1a
        x2b == IF x1a < 0 THEN crop_width ELSE x2a
        x1c == IF x2b > frame_width THEN frame_width - crop_width ELSE x1b
        x2c == IF x2b > frame_width THEN frame_width ELSE x2b
    IN  << x1c, 0, x2c, frame_height >>

\* ------------------------------------------------------------ compositing
\* processor.py 168: OUTPUT_HEIGHT = original_height
OutputHeight(original_height) == original_height

\* OUTPUT_WIDTH without the step that makes it even.
OutputWidthMut(original_height) == CropWidth(OutputHeight(original_height))

\* OUTPUT_WIDTH = int(OUTPUT_HEIGHT * ASPECT_RATIO), made even.
OutputWidth(original_height) ==
    LET w0 == CropWidth(OutputHeight(original_height))
    IN  IF w0 % 2 # 0 THEN w0 + 1 ELSE w0

\* The LETTERBOX branch of the frame loop.  bg_scale is OUTPUT_HEIGHT /
\* original_height = 1.0, so bg_width is original_width.  scale_factor is
\* the float OUTPUT_WIDTH / original_width; for the resolutions used here
\* h * scale_factor is exact and int() of it is the floor of the quotient.
LetterboxGeometry(original_width, original_height) ==
    LET out_w == OutputWidth(original_height)
        out_h == OutputHeight(original_height)
        bg_width == original_width
        x_offset == FloorDiv(bg_width - out_w, 2)
        scaled_height == FloorDiv(original_height * out_w, original_width)
        y_offset == FloorDiv(out_h - scaled_height, 2)
    IN  [ x_offset |-> x_offset,
          bg_cols |-> SliceLen(x_offset, x_offset + out_w, bg_width),
          scaled_height |-> scaled_height,
          y_offset |-> y_offset,
          rows |-> SliceLen(y_offset, y_offset + scaled_height, out_h) ]

\* Whether compositing one frame succeeds: cv2.resize rejects an empty
\* source or a zero target size, and the numpy assignment of the foreground
\* rejects a row count it cannot broadcast.
CompositeOk(strategy, target_box, original_width, original_height) ==
    IF strategy = "TRACK"
    THEN LET cb == calculate_crop_box(target_box, original_width, original_height)
         IN  /\ SliceLen(cb[1], cb[3], original_width) > 0
             /\ SliceLen(cb[2], cb[4], original_height) > 0
             /\ OutputWidth(original_height) > 0
    ELSE LET g == LetterboxGeometry(original_width, original_height)
         IN  /\ g.bg_cols > 0
             /\ FloorDiv(OutputWidth(original_height), 4) > 0
             /\ FloorDiv(original_height, 4) > 0
             /\ g.scaled_height > 0
             /\ (g.rows = g.scaled_height \/ g.scaled_height = 1)

\* ------------------------------------------------------------ environment
\* Source resolutions <<width, height>>: a landscape source and a source
\* narrower than the 9:16 window of its height.
Resolutions == { <<32, 16>>, <<8, 16>> }

\* What the detector may report for a sample frame of a w x h source.
Detections(w, h) ==
    LET left == << 0, 0, 4, h >>
        near == << 2, 0, 6, h >>
        right == << w - 4, 0, w, h >>
        face == << 1, 1, 3, 3 >>
    IN  { << >>,
          << [person_box |-> left, face_box |-> face] >>,
          << [person_box |-> right, face_box |-> None] >>,
          << [person_box |-> left, face_box |-> None],
             [person_box |-> near, face_box |-> face] >>,
          << [person_box |-> left, face_box |-> None],
             [person_box |-> right, face_box |-> None] >> }

SortedSeq(S) ==
    CHOOSE s \in [1..Cardinality(S) -> S] :
        \A i, j \in 1..Cardinality(S) : i < j => s[i] < s[j]

\* The scene list with the given set of scene ends: ordered, contiguous,
\* every scene at least one frame long, the first starting at frame 0.
ScenesFromCuts(S) ==
    LET ends == SortedSeq(S)
    IN  [k \in 1..Cardinality(S) |->
            [start_frame |-> IF k = 1 THEN 0 ELSE ends[k - 1],
             end_frame |-> ends[k]]]

\* What detect_scenes may return: no scene at all, or a valid scene list.
SceneLists ==
    { << >> } \cup
    { ScenesFromCuts(S) : S \in { T \in SUBSET (1..MaxFrames) :
                                     Cardinality(T) \in 1..MaxScenes } }

\* Files a run may find left over at its paths.
LocalFiles == { "input", "output", "temp_video", "temp_audio" }
StaleFileSets == { {}, { "output" }, { "temp_video", "temp_audio", "output" } }

StderrText(rc) == IF rc = 0 THEN "encoder log" ELSE "encoder error text"

NoError == [type |-> "none", message |-> "", detail |-> ""]

\* ------------------------------------------------------------------ state
VARIABLES
    pc,                  \* position of the worker in process_video_task
    pv_status,           \* process_video: "idle", "running", "returned", "raised"
    files,               \* local files that exist
    nframes,             \* frames the source actually decodes to
    resolution,          \* <<original_width, original_height>>
    scenes,              \* what detect_scenes returned
    scenes_analysis,     \* the records built in stage 2
    sample_ok,           \* per analysed scene: was its sample frame decoded
    decode_reads,        \* cap.read() calls of the analyzer and the frame loop
    total_frames,        \* CAP_PROP_FRAME_COUNT as reported by the container
    frame_number,
    current_scene_index,
    written,             \* frames written to the encoder's stdin, in order
    enc_state,           \* encoder process: "none", "running", "exited"
    returncode,          \* its exit code once exited
    enc_stderr,          \* what it wrote to its stderr pipe
    exit_point,          \* where process_video stood when the encoder ended
    stdin_open,          \* the encoder's stdin pipe is open
    stderr_output,       \* what process_video read from the stderr pipe
    audio_started,       \* the audio-extract process was run
    mux_started,         \* the merge process was run
    error,               \* the exception that ended the run, if any
    events,              \* progress_callback calls, in order: <<step, progress>>
    job_progress,        \* tasks.job_progress[job_id], None when absent
    in_flight,           \* the composited frame whose write has not returned
    loop_decoded,        \* frames decoded by the frame loop
    stdin_pipe,          \* frames held by the encoder's stdin pipe
    enc_pending,         \* the encoder has diagnostics it has not written yet
    stderr_pipe,         \* diagnostics held by the encoder's stderr pipe
    audio_returncode,    \* exit code of the audio-extract process, -1 before
    job_pc,              \* per job id: position of its process_video_task
    job_ext,             \* per job id: suffix of the uploaded file's name
    local_files,         \* paths that exist in the worker's TEMP_DIR
    s3_objects,          \* keys that exist in the bucket
    progress_by_job,     \* tasks.job_progress, as a map over the job ids
    touched,             \* which job read, wrote or removed which path or key
    delete_pc,           \* per job id: position of a delete_job request
    revoked,             \* job ids the workers have been told to revoke
    task_raised,         \* the exception process_video_task finally raised
    webhook_url,         \* whether the task was given a webhook URL
    webhook_posts,       \* payload statuses POSTed to the webhook, in order
    api_req,             \* the API request being served
    enqueued,            \* tasks sent to the queue with apply_async
    call                 \* the last direct call of a pure function

vars == << pc, pv_status, files, nframes, resolution, scenes, scenes_analysis,
           sample_ok, decode_reads, total_frames, frame_number,
           current_scene_index, written, enc_state, returncode, enc_stderr,
           exit_point, stdin_open, stderr_output, audio_started, mux_started, error,
           events, job_progress, in_flight, loop_decoded, stdin_pipe,
           enc_pending, stderr_pipe, audio_returncode, job_pc, job_ext,
           local_files, s3_objects, progress_by_job, touched, delete_pc,
           revoked, task_raised, webhook_url, webhook_posts, api_req, enqueued,
           call >>

sourcev == << nframes, resolution >>
analysisv == << scenes, scenes_analysis, sample_ok >>
loopv == << total_frames, frame_number, current_scene_index, written >>
encv == << enc_state, returncode, enc_stderr, exit_point >>
muxv == << audio_started, mux_started, audio_returncode >>
pipesv == << in_flight, loop_decoded, stdin_pipe, enc_pending, stderr_pipe >>
progressv == << events, job_progress >>
jobsv == << job_pc, job_ext, local_files, s3_objects, progress_by_job, touched,
           delete_pc, revoked >>
taskv == << task_raised, webhook_url, webhook_posts >>
apiv == << api_req, enqueued >>

NoCall == [op |-> "none", target_box |-> None, subjects |-> << >>,
           frame_width |-> 0, frame_height |-> 0, result |-> None]

original_width == resolution[1]
original_height == resolution[2]

\* The pipeline's variables before the worker picks the job up.
PipelineInit(n, res, stale) ==
    /\ pc = "task_start"
    /\ pv_status = "idle"
    /\ files = stale
    /\ nframes = n
    /\ resolution = res
    /\ scenes = << >>
    /\ scenes_analysis = << >>
    /\ sample_ok = << >>
    /\ decode_reads = 0
    /\ total_frames = 0
    /\ frame_number = 0
    /\ current_scene_index = 0
    /\ written = << >>
    /\ enc_state = "none"
    /\ returncode = 0
    /\ enc_stderr = ""
    /\ exit_point = ""
    /\ stdin_open = FALSE
    /\ stderr_output = ""
    /\ audio_started = FALSE
    /\ mux_started = FALSE
    /\ error = NoError
    /\ events = << >>
    /\ job_progress = None
    /\ in_flight = None
    /\ loop_decoded = 0
    /\ stdin_pipe = 0
    /\ enc_pending = FALSE
    /\ stderr_pipe = 0
    /\ audio_returncode = -1
    /\ call = NoCall

\* ---------------------------------------------------- job ids, paths, keys
\* Job ids: uuid4 strings (api.py 76), so an id holds no "_" and no ".".
Jobs == { "job-a", "job-b" }

\* Suffixes the upload endpoint lets through: the check of api.py 73 is on
\* the lower-cased name, the suffix of line 80 is taken from the name as is.
UploadExtensions == { ".mp4", ".MP4" }

\* api.py 307: the suffixes delete_job goes through.
DeleteExtensions == { ".mp4", ".mov", ".avi", ".mkv", ".webm" }

\* A path or key is the sequence of the pieces its f-string joins.
\* api.py 81: f"inputs/{job_id}_input{ext}"
InputKey(job_id, ext) == << "inputs/", job_id, "_input", ext >>

\* api.py 82: f"outputs/{job_id}_output.mp4"
OutputKey(job_id) == << "outputs/", job_id, "_output", ".mp4" >>

\* tasks.py 63: TEMP_DIR / f"{job_id}_input{ext}"
LocalInput(job_id, ext) == << job_id, "_input", ext >>

\* tasks.py 64: TEMP_DIR / f"{job_id}_output.mp4"
LocalOutput(job_id) == << job_id, "_output", ".mp4" >>

\* os.path.splitext(path)[0]
BaseName(path) == SubSeq(path, 1, Len(path) - 1)

\* A temporary video path that does not depend on the output path.
TempVideoPathMut(output_video) == << "autocrop", "_temp_video", ".mp4" >>

\* processor.py 141-142: f"{base_name}_temp_video.mp4"
TempVideoPath(output_video) == BaseName(output_video) \o << "_temp_video", ".mp4" >>

\* processor.py 143: f"{base_name}_temp_audio.aac"
TempAudioPath(output_video) == BaseName(output_video) \o << "_temp_audio", ".aac" >>

\* tasks.py 36: the key of a job's entry in job_progress.
ProgressKey(job_id) == << job_id >>

\* Both jobs have been accepted by process_video_endpoint (api.py 61-113):
\* their inputs are in the bucket and their tasks are queued.
JobsInit(exts) ==
    /\ job_pc = [j \in Jobs |-> "queued"]
    /\ job_ext = exts
    /\ local_files = {}
    /\ s3_objects = { InputKey(j, exts[j]) : j \in Jobs }
    /\ progress_by_job = [j \in Jobs |-> None]
    /\ touched = {}
    /\ delete_pc = [j \in Jobs |-> "none"]
    /\ revoked = {}

NoRequest == [endpoint |-> "none", pc |-> "idle", job_id |-> "", ext |-> "",
              source_key |-> None, status |-> 0]

\* No task outcome yet; with_url is whether the task got a webhook URL.
TaskInit(with_url) ==
    /\ task_raised = NoError
    /\ webhook_url = with_url
    /\ webhook_posts = << >>

\* api.py 103-106: process_video_task.apply_async(args=[input_s3_key, ...],
\* task_id=job_id)
QueuedTask(job_id, input_s3_key) == [task_id |-> job_id, input_s3_key |-> input_s3_key]

\* The API serves no request; the tasks of the accepted jobs are queued.
ApiInit(exts) ==
    /\ api_req = NoRequest
    /\ enqueued = { QueuedTask(j, InputKey(j, exts[j])) : j \in Jobs }

\* The state before the worker picks the job up.
InitWith(n, res, stale) ==
    /\ PipelineInit(n, res, stale)
    /\ JobsInit([j \in Jobs |-> ".mp4"])
    /\ TaskInit(FALSE)
    /\ ApiInit([j \in Jobs |-> ".mp4"])

Init ==
    \E n \in 0..MaxFrames, res \in Resolutions, stale \in StaleFileSets :
        InitWith(n, res, stale)

\* ------------------------------------------------------- progress callback
\* tasks.update_progress(job_id): the callback stores the event.
ProgressEntry(step, progress) ==
    [step |-> step, progress |-> progress, total_steps |-> TOTAL_STEPS]

\* One or more progress_callback calls made in a row.
Report(evs) ==
    /\ events' = events \o evs
    /\ job_progress' = IF Len(evs) = 0 THEN job_progress
                       ELSE ProgressEntry(evs[Len(evs)][1], evs[Len(evs)][2])

\* An exception leaves process_video and reaches the worker's handler.
Raise(type, message, detail) ==
    /\ error' = [type |-> type, message |-> message, detail |-> detail]
    /\ pv_status' = "raised"
    /\ pc' = "task_except"

\* ------------------------------------------------------ process_video_task
\* tasks.py 59-72: download the input; a failed download raises.
Task_Download ==
    /\ pc = "task_start"
    /\ \E ok \in BOOLEAN :
          IF ok
          THEN /\ files' = files \cup { "input" }
               /\ pc' = "pv_start"
               /\ UNCHANGED error
          ELSE /\ error' = [type |-> "Exception",
                            message |-> "Failed to download input from S3",
                            detail |-> ""]
               /\ pc' = "task_except"
               /\ UNCHANGED files
    /\ UNCHANGED << pv_status, sourcev, analysisv, decode_reads, loopv, encv,
                    stdin_open, stderr_output, muxv, progressv, pipesv, jobsv, taskv, apiv, call >>

\* ------------------------------------------------------------ process_video
\* processor.py 138-152: remove what an earlier run left, report stage 1.
PV_Start ==
    /\ pc = "pv_start"
    /\ pv_status' = "running"
    /\ files' = files \ { "temp_video", "temp_audio", "output" }
    /\ Report(<< <<1, 0>> >>)
    /\ pc' = "pv_detect"
    /\ UNCHANGED << sourcev, analysisv, decode_reads, loopv, encv, stdin_open,
                    stderr_output, muxv, error, pipesv, jobsv, taskv, apiv, call >>

\* The empty scene list let through.
NoScenesMut(sc) == FALSE

\* if not scenes
NoScenes(sc) == Len(sc) = 0

\* processor.py 154-171: detect the scenes; none is an input error.
PV_DetectScenes ==
    /\ pc = "pv_detect"
    /\ \E sc \in SceneLists :
          /\ scenes' = sc
          /\ IF NoScenes(sc)
             THEN /\ Raise("ValueError", "No scenes detected in video", "")
                  /\ UNCHANGED progressv
             ELSE /\ Report(<< <<1, 100>>, <<2, 0>> >>)
                  /\ pc' = "pv_analyze"
                  /\ UNCHANGED << pv_status, error >>
    /\ UNCHANGED << files, sourcev, scenes_analysis, sample_ok, decode_reads,
                    loopv, encv, stdin_open, stderr_output, muxv, pipesv, jobsv, taskv, apiv, call >>

\* int(start_frame + (end_frame - start_frame) / 2)
MiddleFrame(scene) ==
    scene.start_frame + FloorDiv(scene.end_frame - scene.start_frame, 2)

\* analyze_scene_content without the early return on a failed read.
analyze_scene_contentMut(ret, detected) == detected

\* processor.analyze_scene_content: ret is whether the sample frame was
\* read, detected is what the detectors report on it.
analyze_scene_content(ret, detected) == IF ~ret THEN << >> ELSE detected

\* processor.py 174-185: one iteration of the analysis loop.
PV_AnalyzeScene ==
    /\ pc = "pv_analyze"
    /\ Len(scenes_analysis) < Len(scenes)
    /\ LET i == Len(scenes_analysis) + 1
           scene == scenes[i]
       IN  \E ret \in BOOLEAN, detected \in Detections(original_width, original_height) :
              \* a frame the source does not hold cannot be read
              /\ (ret => MiddleFrame(scene) < nframes)
              /\ LET analysis == analyze_scene_content(ret, detected)
                     decision == decide_cropping_strategy(analysis, original_height)
                 IN  scenes_analysis' = Append(scenes_analysis,
                         [start_frame |-> scene.start_frame,
                          end_frame |-> scene.end_frame,
                          analysis |-> analysis,
                          strategy |-> decision[1],
                          target_box |-> decision[2]])
              /\ sample_ok' = Append(sample_ok, ret)
              /\ Report(<< <<2, FloorDiv(i * 100, Len(scenes))>> >>)
    /\ decode_reads' = decode_reads + 1
    /\ UNCHANGED << pc, pv_status, files, sourcev, scenes, loopv, encv,
                    stdin_open, stderr_output, muxv, error, pipesv, jobsv, taskv, apiv, call >>

\* processor.py 201: CAP_PROP_FRAME_COUNT comes from the container: nothing,
\* the true count, or half of it.  The count is read only by the progress
\* report of line 250, so the under-reported one is drawn only for a source
\* long enough to reach that line.
TotalFrameReports(n) ==
    IF n < ProgressEvery THEN { 0, n } ELSE { 0, n \div 2, n }

\* processor.py 188-204: spawn the encoder, open the source, reset the cursor.
PV_SpawnEncoder ==
    /\ pc = "pv_analyze"
    /\ Len(scenes_analysis) = Len(scenes)
    /\ Report(<< <<3, 0>> >>)
    /\ enc_state' = "running"
    /\ stdin_open' = TRUE
    /\ \E reported \in TotalFrameReports(nframes) : total_frames' = reported
    /\ frame_number' = 0
    /\ current_scene_index' = 0
    /\ pc' = "pv_loop"
    /\ UNCHANGED << pv_status, files, sourcev, analysisv, decode_reads, written,
                    returncode, enc_stderr, exit_point, stderr_output, muxv,
                    error, pipesv, jobsv, taskv, apiv, call >>

\* The cursor that stays on the scene it is on.
AdvanceCursorStuckMut(csi, fn, sa) == csi

\* The cursor advancing one frame late (> in place of >=).
AdvanceCursorMut(csi, fn, sa) ==
    IF csi < Len(sa) - 1 /\ fn > sa[csi + 2].start_frame THEN csi + 1 ELSE csi

\* processor.py 211-213: the forward-only scene cursor (0-based, as in the code).
AdvanceCursor(csi, fn, sa) ==
    IF csi < Len(sa) - 1 /\ fn >= sa[csi + 2].start_frame THEN csi + 1 ELSE csi

\* The frame handed to the encoder's stdin is appended twice.
WriteFrameMut(w, frame) == Append(Append(w, frame), frame)

\* processor.py 246: ffmpeg_process.stdin.write(output_frame.tobytes())
WriteFrame(w, frame) == Append(w, frame)

\* The percentage computed against the frames written so far.
StagePercentMut(number, total) == FloorDiv(number * 100, number)

\* processor.py 250: int(frame_number / total_frames * 100)
StagePercent(number, total) == FloorDiv(number * 100, total)

\* processor.py 206-244: the first half of one iteration of the frame loop:
\* read a frame, move the scene cursor, composite the output frame.
PV_ReadFrame ==
    /\ pc = "pv_loop"
    /\ decode_reads' = decode_reads + 1
    /\ IF frame_number >= nframes
       THEN \* ret is False: break
            /\ pc' = "pv_close"
            /\ UNCHANGED << pv_status, error, current_scene_index, in_flight,
                            loop_decoded >>
       ELSE LET csi == AdvanceCursor(current_scene_index, frame_number, scenes_analysis)
                scene_data == scenes_analysis[csi + 1]
            IN  /\ current_scene_index' = csi
                /\ loop_decoded' = loop_decoded + 1
                /\ IF ~CompositeOk(scene_data.strategy, scene_data.target_box,
                                   original_width, original_height)
                   THEN /\ Raise("ValueError", "compositing failed", "")
                        /\ UNCHANGED in_flight
                   ELSE /\ in_flight' =
                               [frame |-> frame_number,
                                scene |-> csi,
                                strategy |-> scene_data.strategy,
                                crop_box |-> IF scene_data.strategy = "TRACK"
                                             THEN calculate_crop_box(scene_data.target_box,
                                                      original_width, original_height)
                                             ELSE None]
                        /\ pc' = "pv_write"
                        /\ UNCHANGED << pv_status, error >>
    /\ UNCHANGED << files, sourcev, analysisv, total_frames, frame_number, written,
                    encv, stdin_open, stderr_output, muxv, progressv, stdin_pipe,
                    enc_pending, stderr_pipe, jobsv, taskv, apiv, call >>

\* processor.py 246-250: the second half: the write to the encoder's stdin,
\* which returns once the pipe has taken the frame, then the frame count
\* and the progress report.
PV_WriteFrame ==
    /\ pc = "pv_write"
    /\ IF enc_state = "exited"
       THEN \* the write end of a pipe whose reader is gone
            /\ Raise("BrokenPipeError", "Broken pipe", "")
            /\ UNCHANGED << frame_number, written, progressv, in_flight, stdin_pipe >>
       ELSE LET next_number == frame_number + 1
            IN  /\ stdin_pipe < StdinCapacity
                /\ stdin_pipe' = stdin_pipe + 1
                /\ written' = WriteFrame(written, in_flight)
                /\ in_flight' = None
                /\ frame_number' = next_number
                /\ IF next_number % ProgressEvery # 0
                   THEN /\ pc' = "pv_loop"
                        /\ UNCHANGED << pv_status, error, progressv >>
                   ELSE IF total_frames = 0
                   THEN /\ Raise("ZeroDivisionError", "division by zero", "")
                        /\ UNCHANGED progressv
                   ELSE /\ Report(<< <<3, StagePercent(next_number, total_frames)>> >>)
                        /\ pc' = "pv_loop"
                        /\ UNCHANGED << pv_status, error >>
    /\ UNCHANGED << files, sourcev, analysisv, decode_reads, total_frames,
                    current_scene_index, encv, stdin_open, stderr_output, muxv,
                    loop_decoded, enc_pending, stderr_pipe, jobsv, taskv, apiv, call >>

\* processor.py 252: close the encoder's stdin.
PV_CloseStdin ==
    /\ pc = "pv_close"
    /\ stdin_open' = FALSE
    /\ pc' = "pv_wait"
    /\ UNCHANGED << pv_status, files, sourcev, analysisv, decode_reads, loopv,
                    encv, stderr_output, muxv, error, progressv, pipesv, jobsv, taskv, apiv, call >>

\* processor.py 253: stderr.read() takes what the stderr pipe holds; it
\* returns only at the end of the stream, when the encoder has exited.
PV_ReadStderr ==
    /\ pc = "pv_wait"
    /\ stderr_pipe > 0
    /\ stderr_pipe' = 0
    /\ UNCHANGED << pc, pv_status, files, sourcev, analysisv, decode_reads, loopv,
                    encv, stdin_open, stderr_output, muxv, error, progressv,
                    in_flight, loop_decoded, stdin_pipe, enc_pending, jobsv, taskv, apiv, call >>

\* The exit code of the encoder taken for a success.
EncoderFailedMut(rc) == FALSE

\* processor.py 257: ffmpeg_process.returncode != 0
EncoderFailed(rc) == rc # 0

\* processor.py 253-262: the stderr stream has ended; wait, check the exit code.
PV_WaitEncoder ==
    /\ pc = "pv_wait"
    /\ enc_state = "exited"
    /\ stderr_output' = enc_stderr
    /\ stderr_pipe' = 0
    /\ IF EncoderFailed(returncode)
       THEN /\ Raise("RuntimeError", "FFmpeg frame processing failed", enc_stderr)
            /\ UNCHANGED progressv
       ELSE /\ Report(<< <<4, 0>> >>)
            /\ pc' = "pv_audio"
            /\ UNCHANGED << pv_status, error >>
    /\ UNCHANGED << files, sourcev, analysisv, decode_reads, loopv, encv,
                    stdin_open, muxv, in_flight, loop_decoded, stdin_pipe,
                    enc_pending, jobsv, taskv, apiv, call >>

\* The encoder takes a frame from its stdin pipe; it may then have
\* diagnostics to write.  It reads no further input while it has some.
Encoder_Consume ==
    /\ enc_state = "running"
    /\ ~enc_pending
    /\ stdin_pipe > 0
    /\ stdin_pipe' = stdin_pipe - 1
    /\ \E diag \in BOOLEAN : enc_pending' = diag
    /\ UNCHANGED << pc, pv_status, files, sourcev, analysisv, decode_reads, loopv,
                    encv, stdin_open, stderr_output, muxv, error, progressv,
                    in_flight, loop_decoded, stderr_pipe, jobsv, taskv, apiv, call >>

\* The encoder writes its diagnostics to the stderr pipe, which takes them
\* only while it has room.
Encoder_WriteStderr ==
    /\ enc_state = "running"
    /\ enc_pending
    /\ stderr_pipe < StderrCapacity
    /\ stderr_pipe' = stderr_pipe + 1
    /\ enc_pending' = FALSE
    /\ UNCHANGED << pc, pv_status, files, sourcev, analysisv, decode_reads, loopv,
                    encv, stdin_open, stderr_output, muxv, error, progressv,
                    in_flight, loop_decoded, stdin_pipe, jobsv, taskv, apiv, call >>

\* The encoder process ends: with code 0 only once its input has ended and
\* it has taken and reported all of it, with a non-zero code at any time;
\* the video artifact is there after a success and may be there after a
\* failure.  What its stdin pipe still held goes with the process.
Encoder_Exit ==
    /\ enc_state = "running"
    /\ \E rc \in { 0, 1 }, left \in BOOLEAN :
          /\ (rc = 0 => /\ ~stdin_open
                        /\ pc = "pv_wait"
                        /\ stdin_pipe = 0
                        /\ ~enc_pending
                        /\ left)
          /\ enc_state' = "exited"
          /\ returncode' = rc
          /\ enc_stderr' = StderrText(rc)
          /\ exit_point' = pc
          /\ files' = IF left THEN files \cup { "temp_video" } ELSE files
    /\ stdin_pipe' = 0
    /\ enc_pending' = FALSE
    /\ UNCHANGED << pc, pv_status, sourcev, analysisv, decode_reads, loopv,
                    stdin_open, stderr_output, muxv, error, progressv, in_flight,
                    loop_decoded, stderr_pipe, jobsv, taskv, apiv, call >>

\* processor.py 264-277: extract the audio track.
PV_ExtractAudio ==
    /\ pc = "pv_audio"
    /\ audio_started' = TRUE
    /\ \E rc \in { 0, 1 }, left \in BOOLEAN :
          /\ (rc = 0 => left)
          /\ audio_returncode' = rc
          /\ files' = IF left THEN files \cup { "temp_audio" } ELSE files
          /\ IF rc # 0
             THEN /\ Raise("RuntimeError", "Audio extraction failed", "")
                  /\ UNCHANGED progressv
             ELSE /\ Report(<< <<4, 100>>, <<5, 0>> >>)
                  /\ pc' = "pv_mux"
                  /\ UNCHANGED << pv_status, error >>
    /\ UNCHANGED << sourcev, analysisv, decode_reads, loopv, encv, stdin_open,
                    stderr_output, mux_started, pipesv, jobsv, taskv, apiv, call >>

\* The temporaries left in place.
RemoveTemporariesMut(fs) == fs

\* processor.py 291-294: remove the temporary artifacts.
RemoveTemporaries(fs) == fs \ { "temp_video", "temp_audio" }

\* processor.py 279-304: merge video and audio, remove the temporaries.
PV_Merge ==
    /\ pc = "pv_mux"
    /\ mux_started' = TRUE
    /\ \E rc \in { 0, 1 }, left \in BOOLEAN :
          /\ (rc = 0 => left)
          /\ IF rc # 0
             THEN /\ files' = IF left THEN files \cup { "output" } ELSE files
                  /\ Raise("RuntimeError", "Final merge failed", "")
                  /\ UNCHANGED progressv
             ELSE /\ files' = RemoveTemporaries(files \cup { "output" })
                  /\ Report(<< <<5, 100>> >>)
                  /\ pv_status' = "returned"
                  /\ pc' = "task_upload"
                  /\ UNCHANGED error
    /\ UNCHANGED << sourcev, analysisv, decode_reads, loopv, encv, stdin_open,
                    stderr_output, audio_started, audio_returncode, pipesv, jobsv, taskv, apiv, call >>

\* tasks.py 81-120: upload the output, remove the local files, drop the
\* progress entry.  The webhook POST only adds fields to the returned dict.
Task_Upload ==
    /\ pc = "task_upload"
    /\ \E ok \in BOOLEAN :
          IF ok
          THEN /\ files' = files \ { "input", "output" }
               /\ job_progress' = None
               /\ pc' = "task_done"
               /\ UNCHANGED error
          ELSE /\ error' = [type |-> "Exception",
                            message |-> "Failed to upload output to S3",
                            detail |-> ""]
               /\ pc' = "task_except"
               /\ UNCHANGED << files, job_progress >>
    /\ UNCHANGED << pv_status, sourcev, analysisv, decode_reads, loopv, encv,
                    stdin_open, stderr_output, muxv, events, pipesv, jobsv, taskv, apiv, call >>

\* tasks.py 122-150: the failure handler: remove the local input and output,
\* drop the progress entry, re-raise.
Task_Handler ==
    /\ pc = "task_except"
    /\ files' = files \ { "input", "output" }
    /\ job_progress' = None
    /\ pc' = "task_failed"
    /\ UNCHANGED << pv_status, sourcev, analysisv, decode_reads, loopv, encv,
                    stdin_open, stderr_output, muxv, error, events, pipesv, jobsv, taskv, apiv, call >>

Next ==
    \/ Task_Download
    \/ PV_Start
    \/ PV_DetectScenes
    \/ PV_AnalyzeScene
    \/ PV_SpawnEncoder
    \/ PV_ReadFrame
    \/ PV_WriteFrame
    \/ PV_CloseStdin
    \/ PV_ReadStderr
    \/ PV_WaitEncoder
    \/ Encoder_Consume
    \/ Encoder_WriteStderr
    \/ Encoder_Exit
    \/ PV_ExtractAudio
    \/ PV_Merge
    \/ Task_Upload
    \/ Task_Handler

Spec == Init /\ [][Next]_vars

\* ------------------------------------------------- direct calls (unit level)
\* The pure functions called on their own, over enumerated arguments.
FrameHeights == { 2, 4, 9, 16, 17, 18 }
XCoords == { 0, 3, 6, 9 }

TargetBoxes(frame_width, frame_height) ==
    { << ab[1], 0, ab[2], frame_height >> :
          ab \in { p \in (0..frame_width) \X (0..frame_width) : p[1] < p[2] } }

PersonBoxes ==
    { << ab[1], 0, ab[2], 8 >> : ab \in { p \in XCoords \X XCoords : p[1] < p[2] } }

\* A person with no face found, or with a face box inside the person box.
Subjects ==
    { [person_box |-> pb, face_box |-> None] : pb \in PersonBoxes } \cup
    { [person_box |-> pb, face_box |-> << pb[1] + 1, 1, pb[1] + 2, 2 >>] :
          pb \in PersonBoxes }

SubjectLists ==
    UNION { [1..n -> Subjects] : n \in 0..MaxSubjects }

pipelinev == << pc, pv_status, files, nframes, resolution, scenes, scenes_analysis,
            sample_ok, decode_reads, total_frames, frame_number,
            current_scene_index, written, enc_state, returncode, enc_stderr,
            exit_point, stdin_open, stderr_output, audio_started, mux_started,
            error, events, job_progress, in_flight, loop_decoded, stdin_pipe,
            enc_pending, stderr_pipe, audio_returncode >>

pipev == << pipelinev, jobsv, taskv, apiv >>

Call_calculate_crop_box ==
    /\ call = NoCall
    /\ \E fw \in 1..MaxWidth, fh \in FrameHeights :
          \E tb \in TargetBoxes(fw, fh) :
             call' = [op |-> "calculate_crop_box", target_box |-> tb,
                      subjects |-> << >>, frame_width |-> fw, frame_height |-> fh,
                      result |-> calculate_crop_box(tb, fw, fh)]
    /\ UNCHANGED pipev

Call_decide_cropping_strategy ==
    /\ call = NoCall
    /\ \E sa \in SubjectLists, fh \in FrameHeights :
          call' = [op |-> "decide_cropping_strategy", target_box |-> None,
                   subjects |-> sa, frame_width |-> 0, frame_height |-> fh,
                   result |-> decide_cropping_strategy(sa, fh)]
    /\ UNCHANGED pipev

\* processor.py 166-171: the output size process_video derives from the
\* source height.
Call_output_size ==
    /\ call = NoCall
    /\ \E h \in 0..MaxHeight :
          call' = [op |-> "output_size", target_box |-> None,
                   subjects |-> << >>, frame_width |-> 0, frame_height |-> h,
                   result |-> << OutputWidth(h), OutputHeight(h) >>]
    /\ UNCHANGED pipev

InitPure == InitWith(0, << 32, 16 >>, {})

NextPure ==
    \/ Call_calculate_crop_box
    \/ Call_decide_cropping_strategy
    \/ Call_output_size

SpecPure == InitPure /\ [][NextPure]_vars

\* ----------------------------------------- stage 3 to 5 of a long source
\* The one scene of the long source and its stage-2 record: a single
\* person without a face box.
LongScene == [start_frame |-> 0, end_frame |-> LongSource]

LongAnalysis ==
    LET analysis == << [person_box |-> << 0, 0, 4, 16 >>, face_box |-> None] >>
        decision == decide_cropping_strategy(analysis, 16)
    IN  [start_frame |-> LongScene.start_frame,
         end_frame |-> LongScene.end_frame,
         analysis |-> analysis,
         strategy |-> decision[1],
         target_box |-> decision[2]]

\* process_video at the end of stage 2 (processor.py 185) for a landscape
\* source of LongSource frames detected as one scene.
InitLong ==
    /\ pc = "pv_analyze"
    /\ pv_status = "running"
    /\ files = { "input" }
    /\ nframes = LongSource
    /\ resolution = << 32, 16 >>
    /\ scenes = << LongScene >>
    /\ scenes_analysis = << LongAnalysis >>
    /\ sample_ok = << TRUE >>
    /\ decode_reads = 1
    /\ total_frames = 0
    /\ frame_number = 0
    /\ current_scene_index = 0
    /\ written = << >>
    /\ enc_state = "none"
    /\ returncode = 0
    /\ enc_stderr = ""
    /\ exit_point = ""
    /\ stdin_open = FALSE
    /\ stderr_output = ""
    /\ audio_started = FALSE
    /\ mux_started = FALSE
    /\ error = NoError
    /\ events = << << 1, 0 >>, << 1, 100 >>, << 2, 0 >>, << 2, 100 >> >>
    /\ job_progress = ProgressEntry(2, 100)
    /\ in_flight = None
    /\ loop_decoded = 0
    /\ stdin_pipe = 0
    /\ enc_pending = FALSE
    /\ stderr_pipe = 0
    /\ audio_returncode = -1
    /\ call = NoCall
    /\ JobsInit([j \in Jobs |-> ".mp4"])
    /\ TaskInit(FALSE)
    /\ ApiInit([j \in Jobs |-> ".mp4"])

NextLong ==
    \/ PV_SpawnEncoder
    \/ PV_ReadFrame
    \/ PV_WriteFrame
    \/ PV_CloseStdin
    \/ PV_ReadStderr
    \/ PV_WaitEncoder
    \/ Encoder_Consume
    \/ Encoder_WriteStderr
    \/ Encoder_Exit
    \/ PV_ExtractAudio
    \/ PV_Merge
    \/ Task_Upload
    \/ Task_Handler

SpecLong == InitLong /\ [][NextLong]_vars

\* ------------------------------------- concurrent jobs, S3 and delete_job
RunningPcs == { "download", "pv_clean", "pv_encode", "pv_audio", "pv_merge",
                "upload", "cleanup", "except" }
StoppedPcs == { "done", "failed", "terminated", "discarded" }

FileTarget(path) == [kind |-> "file", name |-> path]
ProgressTarget(job_id) == [kind |-> "job_progress", name |-> ProgressKey(job_id)]

\* The job reads, writes or removes the targets.
Touch(job_id, targets) ==
    touched' = touched \cup { [job |-> job_id, target |-> t] : t \in targets }

\* tasks.update_progress(job_id): job_progress[job_id] = {...}
SetProgress(job_id, step, progress) ==
    progress_by_job' = [progress_by_job EXCEPT ![job_id] = ProgressEntry(step, progress)]

\* tasks.py 117-118, 147-148: del job_progress[job_id]
DelProgress(job_id) ==
    progress_by_job' = [progress_by_job EXCEPT ![job_id] = None]

Goto(job_id, to) == job_pc' = [job_pc EXCEPT ![job_id] = to]

\* A worker takes the task from the queue; a task it knows as revoked is
\* discarded.
W_Start(j) ==
    /\ job_pc[j] = "queued"
    /\ Goto(j, IF j \in revoked THEN "discarded" ELSE "download")
    /\ UNCHANGED << job_ext, local_files, s3_objects, progress_by_job, touched,
                    delete_pc, revoked, taskv, apiv, pipelinev, call >>

\* tasks.py 59-72: derive the local paths, download the input.
W_Download(j) ==
    /\ job_pc[j] = "download"
    /\ LET input_s3_key == InputKey(j, job_ext[j])
           ext == input_s3_key[Len(input_s3_key)]
           local_input == LocalInput(j, ext)
       IN  \E ok \in BOOLEAN :
              /\ ok => input_s3_key \in s3_objects
              /\ IF ok
                 THEN /\ local_files' = local_files \cup { local_input }
                      /\ Touch(j, { FileTarget(local_input) })
                      /\ Goto(j, "pv_clean")
                 ELSE /\ Goto(j, "except")
                      /\ UNCHANGED << local_files, touched >>
    /\ UNCHANGED << job_ext, s3_objects, progress_by_job, delete_pc, revoked,
                    taskv, apiv, pipelinev, call >>

\* processor.py 140-152: remove what an earlier run left, report stage 1.
W_PVClean(j) ==
    /\ job_pc[j] = "pv_clean"
    /\ LET output_video == LocalOutput(j)
           stale == { TempVideoPath(output_video), TempAudioPath(output_video),
                      output_video }
       IN  /\ local_files' = local_files \ stale
           /\ Touch(j, { FileTarget(f) : f \in stale } \cup { ProgressTarget(j) })
    /\ SetProgress(j, 1, 0)
    /\ Goto(j, "pv_encode")
    /\ UNCHANGED << job_ext, s3_objects, delete_pc, revoked, taskv, apiv, pipelinev, call >>

\* processor.py 154-262: stages 1 to 3: read the input, encode the
\* temporary video.
W_PVEncode(j) ==
    /\ job_pc[j] = "pv_encode"
    /\ LET temp_video == TempVideoPath(LocalOutput(j))
       IN  /\ Touch(j, { FileTarget(LocalInput(j, job_ext[j])), FileTarget(temp_video),
                         ProgressTarget(j) })
           /\ \E ok \in BOOLEAN, left \in BOOLEAN :
                 /\ ok => left
                 /\ local_files' = IF left THEN local_files \cup { temp_video }
                                   ELSE local_files
                 /\ IF ok THEN SetProgress(j, 4, 0) /\ Goto(j, "pv_audio")
                          ELSE SetProgress(j, 3, 0) /\ Goto(j, "except")
    /\ UNCHANGED << job_ext, s3_objects, delete_pc, revoked, taskv, apiv, pipelinev, call >>

\* processor.py 264-277: stage 4: extract the temporary audio.
W_PVAudio(j) ==
    /\ job_pc[j] = "pv_audio"
    /\ LET temp_audio == TempAudioPath(LocalOutput(j))
       IN  /\ Touch(j, { FileTarget(LocalInput(j, job_ext[j])), FileTarget(temp_audio),
                         ProgressTarget(j) })
           /\ \E ok \in BOOLEAN :
                 IF ok THEN /\ local_files' = local_files \cup { temp_audio }
                            /\ SetProgress(j, 5, 0)
                            /\ Goto(j, "pv_merge")
                       ELSE /\ Goto(j, "except")
                            /\ UNCHANGED << local_files, progress_by_job >>
    /\ UNCHANGED << job_ext, s3_objects, delete_pc, revoked, taskv, apiv, pipelinev, call >>

\* processor.py 279-304: stage 5: merge into the output, remove the
\* temporaries.
W_PVMerge(j) ==
    /\ job_pc[j] = "pv_merge"
    /\ LET output_video == LocalOutput(j)
           temp_video == TempVideoPath(output_video)
           temp_audio == TempAudioPath(output_video)
       IN  /\ Touch(j, { FileTarget(temp_video), FileTarget(temp_audio),
                         FileTarget(output_video), ProgressTarget(j) })
           /\ \E ok \in BOOLEAN :
                 IF ok THEN /\ local_files' = (local_files \cup { output_video })
                                                 \ { temp_video, temp_audio }
                            /\ SetProgress(j, 5, 100)
                            /\ Goto(j, "upload")
                       ELSE /\ Goto(j, "except")
                            /\ UNCHANGED << local_files, progress_by_job >>
    /\ UNCHANGED << job_ext, s3_objects, delete_pc, revoked, taskv, apiv, pipelinev, call >>

\* tasks.py 81-84: upload the output.
W_Upload(j) ==
    /\ job_pc[j] = "upload"
    /\ Touch(j, { FileTarget(LocalOutput(j)) })
    /\ \E ok \in BOOLEAN :
          IF ok THEN /\ s3_objects' = s3_objects \cup { OutputKey(j) }
                     /\ Goto(j, "cleanup")
                ELSE /\ Goto(j, "except")
                     /\ UNCHANGED s3_objects
    /\ UNCHANGED << job_ext, local_files, progress_by_job, delete_pc, revoked,
                    taskv, apiv, pipelinev, call >>

\* tasks.py 86-120: remove the local files and the progress entry, return.
W_Cleanup(j) ==
    /\ job_pc[j] = "cleanup"
    /\ LET mine == { LocalInput(j, job_ext[j]), LocalOutput(j) }
       IN  /\ local_files' = local_files \ mine
           /\ Touch(j, { FileTarget(f) : f \in mine } \cup { ProgressTarget(j) })
    /\ DelProgress(j)
    /\ Goto(j, "done")
    /\ UNCHANGED << job_ext, s3_objects, delete_pc, revoked, taskv, apiv, pipelinev, call >>

\* tasks.py 122-150: the failure handler.
W_Handler(j) ==
    /\ job_pc[j] = "except"
    /\ LET mine == { LocalInput(j, job_ext[j]), LocalOutput(j) }
       IN  /\ local_files' = local_files \ mine
           /\ Touch(j, { FileTarget(f) : f \in mine } \cup { ProgressTarget(j) })
    /\ DelProgress(j)
    /\ Goto(j, "failed")
    /\ UNCHANGED << job_ext, s3_objects, delete_pc, revoked, taskv, apiv, pipelinev, call >>

\* The worker that runs a task it has been told to revoke with
\* terminate=True kills the process that runs it.
W_Terminate(j) ==
    /\ job_pc[j] \in RunningPcs
    /\ j \in revoked
    /\ Goto(j, "terminated")
    /\ UNCHANGED << job_ext, local_files, s3_objects, progress_by_job, touched,
                    delete_pc, revoked, taskv, apiv, pipelinev, call >>

\* api.py 306-309: delete_job removes the input keys of the five suffixes.
API_DeleteInputs(j) ==
    /\ delete_pc[j] = "none"
    /\ s3_objects' = s3_objects \ { InputKey(j, ext) : ext \in DeleteExtensions }
    /\ delete_pc' = [delete_pc EXCEPT ![j] = "inputs_deleted"]
    /\ UNCHANGED << job_pc, job_ext, local_files, progress_by_job, touched,
                    revoked, taskv, apiv, pipelinev, call >>

\* api.py 311-313: delete_job removes the output key.
API_DeleteOutput(j) ==
    /\ delete_pc[j] = "inputs_deleted"
    /\ s3_objects' = s3_objects \ { OutputKey(j) }
    /\ delete_pc' = [delete_pc EXCEPT ![j] = "output_deleted"]
    /\ UNCHANGED << job_pc, job_ext, local_files, progress_by_job, touched,
                    revoked, taskv, apiv, pipelinev, call >>

\* api.py 315-318: delete_job sends the revoke broadcast and returns.
API_Revoke(j) ==
    /\ delete_pc[j] = "output_deleted"
    /\ delete_pc' = [delete_pc EXCEPT ![j] = "returned"]
    /\ UNCHANGED << job_pc, job_ext, local_files, s3_objects, progress_by_job,
                    touched, revoked, taskv, apiv, pipelinev, call >>

\* The workers receive the revoke broadcast.
W_ReceiveRevoke(j) ==
    /\ delete_pc[j] = "returned"
    /\ j \notin revoked
    /\ revoked' = revoked \cup { j }
    /\ UNCHANGED << job_pc, job_ext, local_files, s3_objects, progress_by_job,
                    touched, delete_pc, taskv, apiv, pipelinev, call >>

InitJobs ==
    /\ PipelineInit(0, << 32, 16 >>, {})
    /\ \E exts \in [Jobs -> UploadExtensions] : JobsInit(exts) /\ ApiInit(exts)
    /\ TaskInit(FALSE)

NextJobs ==
    \E j \in Jobs :
        \/ W_Start(j)
        \/ W_Download(j)
        \/ W_PVClean(j)
        \/ W_PVEncode(j)
        \/ W_PVAudio(j)
        \/ W_PVMerge(j)
        \/ W_Upload(j)
        \/ W_Cleanup(j)
        \/ W_Handler(j)
        \/ W_Terminate(j)
        \/ W_ReceiveRevoke(j)
        \/ API_DeleteInputs(j)
        \/ API_DeleteOutput(j)
        \/ API_Revoke(j)

SpecJobs == InitJobs /\ [][NextJobs]_vars

\* ------------------------------- process_video_task: outcomes and handler
\* What the steps of process_video_task leave alone.
untaskv == << pv_status, sourcev, analysisv, decode_reads, loopv, encv,
              stdin_open, stderr_output, muxv, events, pipesv, jobsv, apiv, call >>

\* The exceptions process_video raises (processor.py 157, 244, 246, 250,
\* 258, 270, 285).
ProcessVideoErrors ==
    { [type |-> "ValueError", message |-> "No scenes detected in video", detail |-> ""],
      [type |-> "BrokenPipeError", message |-> "Broken pipe", detail |-> ""],
      [type |-> "RuntimeError", message |-> "Final merge failed", detail |-> ""] }

\* Path.unlink() of an existing file failing, by the line that calls it.
UnlinkError(line) == [type |-> "OSError", message |-> "unlink failed", detail |-> line]

\* The except clause of tasks.py 122 catches the exception.
Catch(e) ==
    /\ error' = e
    /\ pc' = "h_unlink"

\* tasks.py 66-72: download the input; False from download_file is raised
\* as an Exception.
T_Download ==
    /\ pc = "task_start"
    /\ \E ok \in BOOLEAN :
          IF ok
          THEN /\ files' = files \cup { "input" }
               /\ pc' = "t_process"
               /\ UNCHANGED error
          ELSE /\ Catch([type |-> "Exception",
                         message |-> "Failed to download input from S3",
                         detail |-> ""])
               /\ UNCHANGED files
    /\ UNCHANGED << job_progress, taskv, untaskv >>

\* tasks.py 75-79: process_video returns, with the output written, the
\* temporaries removed and the last progress entry stored, or raises, with
\* whatever it had written and reported.
T_ProcessVideo ==
    /\ pc = "t_process"
    /\ \/ /\ files' = RemoveTemporaries(files \cup { "output" })
          /\ job_progress' = ProgressEntry(5, 100)
          /\ pc' = "t_upload"
          /\ UNCHANGED error
       \/ \E e \in ProcessVideoErrors,
             left \in SUBSET { "temp_video", "temp_audio", "output" } :
             /\ files' = files \cup left
             /\ job_progress' = ProgressEntry(IF left = {} THEN 1 ELSE 3, 0)
             /\ Catch(e)
    /\ UNCHANGED << taskv, untaskv >>

\* tasks.py 81-84: upload the output; False from upload_file is raised as an
\* Exception.
T_Upload ==
    /\ pc = "t_upload"
    /\ \E ok \in BOOLEAN :
          IF ok
          THEN /\ pc' = "t_unlink"
               /\ UNCHANGED error
          ELSE Catch([type |-> "Exception",
                      message |-> "Failed to upload output to S3",
                      detail |-> ""])
    /\ UNCHANGED << files, job_progress, taskv, untaskv >>

\* The local input and output are removed in this order; the unlink of a
\* file that exists may raise.  failing is the file whose unlink raises,
\* "none" when both go through.
UnlinkOutcomes(fs) == { "none" } \cup (fs \cap { "input", "output" })

AfterUnlink(fs, failing) ==
    IF failing = "none" THEN fs \ { "input", "output" }
    ELSE IF failing = "input" THEN fs
    ELSE fs \ { "input" }

\* tasks.py 86-90: remove the local files after the upload, inside the try.
T_UnlinkLocal ==
    /\ pc = "t_unlink"
    /\ \E failing \in UnlinkOutcomes(files) :
          /\ files' = AfterUnlink(files, failing)
          /\ IF failing = "none"
             THEN /\ pc' = "t_webhook"
                  /\ UNCHANGED error
             ELSE Catch(UnlinkError(IF failing = "input" THEN "tasks.py 88" ELSE "tasks.py 90"))
    /\ UNCHANGED << job_progress, taskv, untaskv >>

\* requests.post(webhook_url, ...): the payload is delivered or the call
\* raises; the status code only goes into the result.
Post(status) ==
    IF webhook_url
    THEN \E delivered \in BOOLEAN :
            webhook_posts' = IF delivered THEN Append(webhook_posts, status)
                             ELSE webhook_posts
    ELSE UNCHANGED webhook_posts

\* tasks.py 92-120: the completion webhook in its try/except, the progress
\* entry dropped, the result returned.
T_WebhookReturn ==
    /\ pc = "t_webhook"
    /\ Post("completed")
    /\ job_progress' = None
    /\ pc' = "t_returned"
    /\ UNCHANGED << files, error, task_raised, webhook_url, untaskv >>

\* tasks.py 124-127 are not in a try: the OSError of the unlink leaves the
\* handler in place of the exception it caught.
HandlerUnlinkError(original, line) == UnlinkError(line)

\* tasks.py 122-127: the handler removes the local files.
H_UnlinkLocal ==
    /\ pc = "h_unlink"
    /\ \E failing \in UnlinkOutcomes(files) :
          /\ files' = AfterUnlink(files, failing)
          /\ IF failing = "none"
             THEN /\ pc' = "h_webhook"
                  /\ UNCHANGED task_raised
             ELSE /\ task_raised' =
                        HandlerUnlinkError(error, IF failing = "input" THEN "tasks.py 125"
                                                  ELSE "tasks.py 127")
                  /\ pc' = "t_raised"
    /\ UNCHANGED << error, job_progress, webhook_url, webhook_posts, untaskv >>

\* tasks.py 150: a bare raise re-raises the exception being handled.
Reraise(original) == original

\* tasks.py 129-150: the failure webhook in its try/except, the progress
\* entry dropped, the caught exception re-raised.
H_WebhookReraise ==
    /\ pc = "h_webhook"
    /\ Post("failed")
    /\ job_progress' = None
    /\ task_raised' = Reraise(error)
    /\ pc' = "t_raised"
    /\ UNCHANGED << files, error, webhook_url, untaskv >>

InitTask ==
    /\ PipelineInit(0, << 32, 16 >>, {})
    /\ JobsInit([j \in Jobs |-> ".mp4"])
    /\ \E with_url \in BOOLEAN : TaskInit(with_url)
    /\ ApiInit([j \in Jobs |-> ".mp4"])

NextTask ==
    \/ T_Download
    \/ T_ProcessVideo
    \/ T_Upload
    \/ T_UnlinkLocal
    \/ T_WebhookReturn
    \/ H_UnlinkLocal
    \/ H_WebhookReraise

SpecTask == InitTask /\ [][NextTask]_vars

\* ------------------------------------------------ API: storing and queuing
\* Ids uuid4 gives to the jobs the API creates (api.py 76, 135, 271).
NewJobIds == { "job-c", "job-d" }

\* Ids a retry may be asked for: known jobs and one that never existed.
RetryIds == Jobs \cup NewJobIds \cup { "job-x" }

\* Outcomes of s3_storage.upload_file / download_file: True, False (the
\* ClientError caught at s3_storage.py 27, 37), or another exception raised.
S3Outcomes == { "ok", "false", "raise" }

\* Ids that name an object, a local file or a queued task.
UsedIds ==
    { key[2] : key \in s3_objects } \cup { path[1] : path \in local_files }
        \cup { t.task_id : t \in enqueued }

\* The request being served: its endpoint, the job id and suffix it chose,
\* where it stands and the status it answered.
Serving(endpoint, job_id, ext, source_key, at, status) ==
    api_req' = [endpoint |-> endpoint, pc |-> at, job_id |-> job_id, ext |-> ext,
                source_key |-> source_key, status |-> status]

unapiv == << job_pc, job_ext, progress_by_job, touched, delete_pc, revoked,
             taskv, pipelinev, call >>

\* api.py 61-101: process_video_endpoint up to the queuing: the upload is
\* saved to a temp file and stored in S3; any failure, a False from
\* upload_file included, ends in the except clause, which removes the temp
\* file and answers 500.
API_Process_Store ==
    /\ api_req.pc \in { "idle", "done" }
    /\ \E job_id \in NewJobIds \ UsedIds, ext \in UploadExtensions, up \in S3Outcomes :
          IF up = "ok"
          THEN /\ s3_objects' = s3_objects \cup { InputKey(job_id, ext) }
               /\ Serving("process", job_id, ext, None, "stored", 0)
          ELSE /\ Serving("process", job_id, ext, None, "done", 500)
               /\ UNCHANGED s3_objects
    /\ UNCHANGED << local_files, enqueued, unapiv >>

\* api.py 116-162: process_video_from_url up to the queuing: a failed GET
\* answers 400; a False from upload_file raises HTTPException(500), which the
\* except clause for RequestException lets through with the temp file left.
API_ProcessUrl_Store ==
    /\ api_req.pc \in { "idle", "done" }
    /\ \E job_id \in NewJobIds \ UsedIds, got \in BOOLEAN, up \in S3Outcomes :
          LET ext == ".mp4"
              temp_input == LocalInput(job_id, ext)
          IN  IF ~got
              THEN /\ Serving("process_url", job_id, ext, None, "done", 400)
                   /\ UNCHANGED << s3_objects, local_files >>
              ELSE IF up = "ok"
              THEN /\ s3_objects' = s3_objects \cup { InputKey(job_id, ext) }
                   /\ Serving("process_url", job_id, ext, None, "stored", 0)
                   /\ UNCHANGED local_files
              ELSE /\ local_files' = local_files \cup { temp_input }
                   /\ Serving("process_url", job_id, ext, None, "done", 500)
                   /\ UNCHANGED s3_objects
    /\ UNCHANGED << enqueued, unapiv >>

\* api.py 280-283: the results of download_file and upload_file are not
\* looked at: the copy counts as made when neither call raised and the temp
\* file was there to unlink.
RetryCopyStored(down, up) == down = "ok" /\ up # "raise"

\* api.py 254-287: retry_job up to the queuing: the input key is looked up
\* under the five suffixes (404 when there is none), downloaded to a temp
\* file and uploaded under the new job id.
API_Retry_Copy ==
    /\ api_req.pc \in { "idle", "done" }
    /\ \E old \in RetryIds :
          LET found == { ext \in DeleteExtensions : InputKey(old, ext) \in s3_objects }
          IN  IF found = {}
              THEN /\ Serving("retry", "", "", None, "done", 404)
                   /\ UNCHANGED s3_objects
              ELSE \E new_job_id \in NewJobIds \ UsedIds, ext \in found,
                      down \in S3Outcomes, up \in S3Outcomes :
                      \* without the temp file upload_file cannot succeed
                      /\ down # "ok" => up # "ok"
                      /\ IF RetryCopyStored(down, up)
                         THEN Serving("retry", new_job_id, ext, InputKey(old, ext),
                                      "stored", 0)
                         ELSE Serving("retry", new_job_id, ext, InputKey(old, ext),
                                      "done", 500)
                      /\ s3_objects' = IF down = "ok" /\ up = "ok"
                                       THEN s3_objects \cup { InputKey(new_job_id, ext) }
                                       ELSE s3_objects
    /\ UNCHANGED << local_files, enqueued, unapiv >>

\* api.py 103-113, 164-175, 289-298: apply_async with the new input key and
\* the job id as task id, then the "queued" response.
API_Enqueue ==
    /\ api_req.pc = "stored"
    /\ enqueued' = enqueued \cup
           { QueuedTask(api_req.job_id, InputKey(api_req.job_id, api_req.ext)) }
    /\ api_req' = [api_req EXCEPT !.pc = "done", !.status = 200]
    /\ UNCHANGED << s3_objects, local_files, unapiv >>

InitApi ==
    /\ PipelineInit(0, << 32, 16 >>, {})
    /\ \E exts \in [Jobs -> UploadExtensions] : JobsInit(exts) /\ ApiInit(exts)
    /\ TaskInit(FALSE)

NextApi ==
    \/ API_Process_Store
    \/ API_ProcessUrl_Store
    \/ API_Retry_Copy
    \/ API_Enqueue

SpecApi == InitApi /\ [][NextApi]_vars

\* ================================================================= claims

\* The scene intervals (1-based positions in scenes) that contain frame f.
ScenesContaining(f) ==
    { j \in 1..Len(scenes) :
          scenes[j].start_frame <= f /\ f < scenes[j].end_frame }

\* C1: in the frame loop, the scene used for frame f is the one scene whose
\* half-open interval [start_frame, end_frame) contains f; a frame past the
\* last scene's end uses the last scene.  Checked under Spec.
C1_FrameUsesContainingScene ==
    \A k \in 1..Len(written) :
        LET f == written[k].frame
            used == written[k].scene + 1
        IN  /\ f = k - 1
            /\ IF f < scenes[Len(scenes)].end_frame
               THEN ScenesContaining(f) = { used }
               ELSE used = Len(scenes)

\* C1 witness: the cursor has moved to the second scene and a frame past the
\* end of the last scene has been written.
C1_Witness ==
    /\ Len(scenes) = 2
    /\ Len(written) >= 3
    /\ written[2].scene = 1
    /\ written[Len(written)].frame >= scenes[2].end_frame

\* The frame is at least as wide as the crop window.
WindowFits ==
    /\ call.op = "calculate_crop_box"
    /\ call.frame_width >= CropWidth(call.frame_height)

\* C2 (as claimed): calculate_crop_box returns a window of width
\* int(frame_height * 9/16) for every target position; stated here for the
\* frames at least as wide as that window.  Checked under SpecPure.
C2_CropWidthConstant ==
    WindowFits =>
        call.result[3] - call.result[1] = CropWidth(call.frame_height)

\* C3 (as claimed): the window returned by calculate_crop_box satisfies
\* 0 <= x1 < x2 <= frame_width, y1 = 0 and y2 = frame_height.
\* Checked under SpecPure.
C3_CropInsideFrame ==
    call.op = "calculate_crop_box" =>
        /\ 0 <= call.result[1]
        /\ call.result[1] < call.result[3]
        /\ call.result[3] <= call.frame_width
        /\ call.result[2] = 0
        /\ call.result[4] = call.frame_height

\* C3 (amended): when the frame is at least as wide as the crop window
\* int(frame_height * 9/16) and that window is at least 2 wide, the window
\* returned by calculate_crop_box satisfies 0 <= x1 < x2 <= frame_width,
\* y1 = 0 and y2 = frame_height.  Checked under SpecPure.
C3_CropInsideWideFrame ==
    (WindowFits /\ CropWidth(call.frame_height) >= 2) =>
        /\ 0 <= call.result[1]
        /\ call.result[1] < call.result[3]
        /\ call.result[3] <= call.frame_width
        /\ call.result[2] = 0
        /\ call.result[4] = call.frame_height

\* C3 witness: a target at the right edge of a frame wider than the window
\* has had its window shifted back inside the frame.
C3_Witness ==
    /\ WindowFits
    /\ CropWidth(call.frame_height) >= 2
    /\ call.frame_width > CropWidth(call.frame_height)
    /\ call.target_box[3] = call.frame_width
    /\ call.result[3] = call.frame_width
    /\ call.result[1] = call.frame_width - CropWidth(call.frame_height)

\* Width of the box enclosing the person boxes of a subject list.
GroupWidthOf(subjects) ==
    SetMax({ subjects[k].person_box[3] : k \in 1..Len(subjects) })
      - SetMin({ subjects[k].person_box[1] : k \in 1..Len(subjects) })

\* Two or more subjects whose enclosing width equals frame_height * 9/16.
TieCall ==
    /\ call.op = "decide_cropping_strategy"
    /\ Len(call.subjects) >= 2
    /\ GroupWidthOf(call.subjects) * ASPECT_DEN = call.frame_height * ASPECT_NUM

\* C4 (as claimed): with two or more subjects whose enclosing width is
\* exactly frame_height * 9/16, decide_cropping_strategy returns TRACK.
\* Checked under SpecPure.
C4_TieIsTrack == TieCall => call.result[1] = "TRACK"

\* C4 (amended): with two or more subjects whose enclosing width is exactly
\* frame_height * 9/16, decide_cropping_strategy returns (LETTERBOX, None).
\* Checked under SpecPure.
C4_TieIsLetterbox == TieCall => call.result = << "LETTERBOX", None >>

\* C4 witness: a call at the tie has been made.
C4_Witness == TieCall /\ Len(call.subjects) = 3

\* C5: decide_cropping_strategy follows the decision table: no subject gives
\* (LETTERBOX, None); one subject gives TRACK on its face box when it has
\* one and on its person box otherwise; two or more give (TRACK, enclosing
\* box) when the enclosing width is strictly below frame_height * 9/16 and
\* (LETTERBOX, None) when it is strictly above.  Checked under SpecPure.
C5_DecisionTable ==
    call.op = "decide_cropping_strategy" =>
        LET sa == call.subjects
            n == Len(sa)
            enclosing ==
                << SetMin({ sa[k].person_box[1] : k \in 1..n }),
                   SetMin({ sa[k].person_box[2] : k \in 1..n }),
                   SetMax({ sa[k].person_box[3] : k \in 1..n }),
                   SetMax({ sa[k].person_box[4] : k \in 1..n }) >>
        IN  /\ n = 0 => call.result = << "LETTERBOX", None >>
            /\ n = 1 /\ sa[1].face_box # None =>
                   call.result = << "TRACK", sa[1].face_box >>
            /\ n = 1 /\ sa[1].face_box = None =>
                   call.result = << "TRACK", sa[1].person_box >>
            /\ n >= 2 /\ GroupWidthOf(sa) * ASPECT_DEN < call.frame_height * ASPECT_NUM =>
                   call.result = << "TRACK", enclosing >>
            /\ n >= 2 /\ GroupWidthOf(sa) * ASPECT_DEN > call.frame_height * ASPECT_NUM =>
                   call.result = << "LETTERBOX", None >>

\* C5 witness: three subjects, one of them with a face, that fit the crop
\* window together have been given TRACK.
C5_Witness ==
    /\ call.op = "decide_cropping_strategy"
    /\ Len(call.subjects) = 3
    /\ \E k \in 1..3 : call.subjects[k].face_box # None
    /\ GroupWidthOf(call.subjects) * ASPECT_DEN < call.frame_height * ASPECT_NUM
    /\ call.result[1] = "TRACK"

ProcessVideoEnded == pv_status \in { "returned", "raised" }

\* The source is at least as wide as the output, so compositing cannot fail.
LandscapeSource == original_width >= OutputWidth(original_height)

\* C6 (as claimed): whenever the encoder ends with a non-zero exit code
\* during the frame loop, process_video fails with an error that carries
\* the encoder's stderr text, and neither the audio extraction nor the
\* merge is started.  Checked under Spec.
C6_EncoderFailureCarriesStderr ==
    ( /\ ProcessVideoEnded
      /\ LandscapeSource
      /\ enc_state = "exited"
      /\ returncode # 0
      /\ exit_point \in { "pv_loop", "pv_close", "pv_wait" } )
    => /\ pv_status = "raised"
       /\ error.detail = enc_stderr
       /\ ~audio_started
       /\ ~mux_started

FatalStageError ==
    /\ pv_status = "raised"
    /\ error.type = "RuntimeError"

\* C7 (as claimed): after a fatal error (encoder, audio extraction or merge
\* exiting non-zero), once process_video and the failure handler of
\* process_video_task have finished, neither temporary artifact exists.
\* Checked under Spec.
C7_NoTemporariesAfterFailure ==
    (pc = "task_failed" /\ FatalStageError) =>
        files \cap { "temp_video", "temp_audio" } = {}

\* C8 (as claimed): after any failed run of process_video the destination
\* file does not exist.  Checked under Spec.
C8_NoDestinationAfterFailure ==
    pv_status = "raised" => "output" \notin files

\* C9: when detect_scenes returns no scene, process_video fails with the
\* input error before the encoder is spawned, before the analyzer or the
\* frame loop reads a frame, and with no progress event of stage 2 or
\* later.  Checked under Spec.
C9_ZeroScenesFailFast ==
    ( /\ pv_status # "idle"
      /\ pc \notin { "pv_start", "pv_detect" }
      /\ Len(scenes) = 0 )
    => /\ pv_status = "raised"
       /\ error.type = "ValueError"
       /\ error.message = "No scenes detected in video"
       /\ enc_state = "none"
       /\ decode_reads = 0
       /\ \A k \in 1..Len(events) : events[k][1] < 2

\* C9 witness: a run on a source that holds frames found no scene and has
\* ended in the failure handler.
C9_Witness ==
    /\ pc = "task_failed"
    /\ pv_status = "raised"
    /\ Len(scenes) = 0
    /\ nframes > 0

SomeSampleUndecodable == \E i \in 1..Len(sample_ok) : ~sample_ok[i]

\* C10: a scene whose sample frame cannot be decoded gets an empty analysis,
\* strategy LETTERBOX and no target box, and the run does not fail for it:
\* every scene is analysed and stage 3 is entered.  Checked under Spec.
C10_UndecodableSampleIsLetterbox ==
    /\ \A i \in 1..Len(scenes_analysis) :
          ~sample_ok[i] =>
              /\ scenes_analysis[i].analysis = << >>
              /\ scenes_analysis[i].strategy = "LETTERBOX"
              /\ scenes_analysis[i].target_box = None
    /\ (SomeSampleUndecodable /\ pc # "pv_analyze") =>
          /\ Len(scenes_analysis) = Len(scenes)
          /\ enc_state # "none"

\* C10 witness: a run in which the first of two sample frames could not be
\* decoded and the second could has gone through stages 3 to 5.
C10_Witness ==
    /\ pv_status = "returned"
    /\ Len(sample_ok) = 2
    /\ ~sample_ok[1]
    /\ sample_ok[2]
    /\ scenes_analysis[2].strategy = "TRACK"
    /\ events[Len(events)] = << 5, 100 >>

\* The frame loop ended by the end of the source, not by an exception.
FrameLoopEnded ==
    /\ pc \in { "pv_close", "pv_wait", "pv_audio", "pv_mux", "task_upload" }
    /\ pv_status \in { "running", "returned" }

\* C11: the frames written to the encoder's stdin are the decoded frames,
\* one write each, in increasing frame order: the k-th write carries frame
\* k - 1; the loop never has decoded more than one frame beyond the writes
\* that returned, that frame being the one in flight; and when the loop
\* ends at the end of the source every decoded frame has been written.
C11_OneWritePerFrameInOrder ==
    /\ \A k \in 1..Len(written) : written[k].frame = k - 1
    /\ Len(written) <= loop_decoded
    /\ loop_decoded <= Len(written) + 1
    /\ in_flight # None =>
          /\ in_flight.frame = Len(written)
          /\ loop_decoded = Len(written) + 1
    /\ FrameLoopEnded =>
          /\ Len(written) = loop_decoded
          /\ loop_decoded = nframes
          /\ in_flight = None

\* C11 witness: the write of the third frame is blocked on a full stdin pipe
\* while the two frames before it have been written.
C11_Witness ==
    /\ pc = "pv_write"
    /\ enc_state = "running"
    /\ in_flight # None
    /\ in_flight.frame = 2
    /\ Len(written) = 2
    /\ stdin_pipe = StdinCapacity

\* An event <<step, progress>> was emitted before the i-th event.
EmittedBefore(i, ev) == \E j \in 1..(i - 1) : events[j] = ev

\* C12: the progress events of a run carry stages 1..5 in non-decreasing
\* order without skipping one, and a stage is entered only after the stage
\* before it completed: stage 2 after a non-empty scene list and <<1, 100>>,
\* stage 3 after every scene was analysed and <<2, 100>>, stage 4 after the
\* loop wrote every frame and the encoder exited with code 0, stage 5 after
\* <<4, 100>> and an audio extraction that exited with code 0.  The audio
\* process is run only after an encoder exit with code 0, the merge only
\* after an audio exit with code 0.
C12_StagesInOrder ==
    /\ \A i \in 1..Len(events) :
          /\ events[i][1] \in 1..5
          /\ i > 1 => /\ events[i - 1][1] <= events[i][1]
                      /\ events[i][1] <= events[i - 1][1] + 1
          /\ i = 1 => events[i][1] = 1
          /\ events[i][1] = 2 => /\ EmittedBefore(i, << 1, 100 >>)
                                 /\ Len(scenes) > 0
          /\ events[i][1] = 3 => /\ EmittedBefore(i, << 2, 100 >>)
                                 /\ Len(scenes_analysis) = Len(scenes)
          /\ events[i][1] = 4 => /\ enc_state = "exited"
                                 /\ returncode = 0
                                 /\ ~stdin_open
                                 /\ Len(written) = nframes
          /\ events[i][1] = 5 => /\ EmittedBefore(i, << 4, 100 >>)
                                 /\ audio_returncode = 0
    /\ audio_started => /\ enc_state = "exited"
                        /\ returncode = 0
                        /\ \E i \in 1..Len(events) : events[i] = << 4, 0 >>
    /\ mux_started => /\ audio_started
                      /\ audio_returncode = 0
                      /\ \E i \in 1..Len(events) : events[i] = << 5, 0 >>

\* C12 witness: a run of three or more frames went through the five stages
\* and its merge process was run.
C12_Witness ==
    /\ mux_started
    /\ Len(written) >= 3
    /\ \A k \in 1..5 : \E i \in 1..Len(events) : events[i][1] = k

\* C13: every progress event has its stage in 1..5 and its percent in
\* 0..100, whatever frame count the container reported.
C13_ProgressInRange ==
    \A i \in 1..Len(events) :
        /\ events[i][1] \in 1..5
        /\ events[i][2] \in 0..100

\* The frame loop has composited, or failed to composite, a frame of a
\* LETTERBOX scene.
LetterboxComposited ==
    /\ loop_decoded > 0
    /\ scenes_analysis[current_scene_index + 1].strategy = "LETTERBOX"

\* C14: whatever the source resolution, when the loop composites a frame of
\* a LETTERBOX scene the sharp foreground is at most as high as the output,
\* the offsets of the centre crop and of the foreground are non-negative,
\* the foreground fills exactly its rows of the output frame, and the
\* compositing does not fail.
C14_LetterboxFitsOutput ==
    LetterboxComposited =>
        LET g == LetterboxGeometry(original_width, original_height)
        IN  /\ g.scaled_height <= original_height
            /\ g.x_offset >= 0
            /\ g.y_offset >= 0
            /\ g.rows = g.scaled_height
            /\ g.bg_cols = OutputWidth(original_height)
            /\ error.message # "compositing failed"

\* C15: for every source height the output width is even and the output
\* height is the source height; the width is the 9:16 width of that height
\* to within the rounding and the one pixel that makes it even.
C15_OutputSizeEvenWidth ==
    call.op = "output_size" =>
        /\ call.result[1] % 2 = 0
        /\ call.result[2] = call.frame_height
        /\ ASPECT_DEN * call.result[1] > ASPECT_NUM * call.frame_height - ASPECT_DEN
        /\ ASPECT_DEN * call.result[1] <= ASPECT_NUM * call.frame_height + ASPECT_DEN

\* C15 witness: a height whose 9:16 width is odd (16 gives 9) has got the
\* next even width.
C15_Witness ==
    /\ call.op = "output_size"
    /\ call.frame_height > 0
    /\ CropWidth(call.frame_height) % 2 = 1
    /\ call.result[1] = CropWidth(call.frame_height) + 1

\* C16: in every record built in stage 2 the target box is None exactly
\* when the strategy is LETTERBOX, and every frame the loop composited as
\* TRACK belongs to a scene with a target box and carries the crop window
\* computed from it.
C16_TargetNoneIffLetterbox ==
    /\ \A i \in 1..Len(scenes_analysis) :
          /\ scenes_analysis[i].strategy \in { "TRACK", "LETTERBOX" }
          /\ (scenes_analysis[i].target_box = None) <=>
                 (scenes_analysis[i].strategy = "LETTERBOX")
    /\ \A k \in 1..Len(written) :
          written[k].strategy = "TRACK" =>
              /\ scenes_analysis[written[k].scene + 1].target_box # None
              /\ written[k].crop_box # None

\* C16 witness: a run analysed one scene as TRACK and one as LETTERBOX and
\* wrote a frame of each.
C16_Witness ==
    /\ Len(scenes_analysis) = 2
    /\ \E k \in 1..Len(written) : written[k].strategy = "TRACK"
    /\ \E k \in 1..Len(written) :
          /\ written[k].strategy = "LETTERBOX"
          /\ Len(scenes_analysis[written[k].scene + 1].analysis) = 2

\* process_video has just returned to process_video_task.
ProcessVideoReturned == pc = "task_upload" /\ pv_status = "returned"

\* C17: when process_video returns, the destination file exists and neither
\* the temporary video artifact nor the temporary audio artifact does.
C17_SuccessLeavesOnlyDestination ==
    ProcessVideoReturned =>
        /\ "output" \in files
        /\ "temp_video" \notin files
        /\ "temp_audio" \notin files

\* C17 witness: process_video returned from a run that wrote frames and
\* ran both the audio and the merge process.
C17_Witness ==
    /\ ProcessVideoReturned
    /\ Len(written) > 0
    /\ audio_returncode = 0
    /\ mux_started
    /\ files = { "input", "output" }

\* The local paths process_video_task and process_video derive for a job.
LocalPathsOf(j) ==
    { LocalInput(j, job_ext[j]), LocalOutput(j),
      TempVideoPath(LocalOutput(j)), TempAudioPath(LocalOutput(j)) }

\* C18: jobs with distinct ids derive disjoint local paths; every path and
\* every job_progress key a job reads, writes or removes starts with its own
\* job id; and no job sees the effect of another: before a job has written
\* anything none of its files and no progress entry of it exists, and what
\* it wrote is still there when it comes to use it.
C18_JobsTouchOnlyTheirOwn ==
    /\ \A j, k \in Jobs : j # k => LocalPathsOf(j) \cap LocalPathsOf(k) = {}
    /\ \A t \in touched : t.target.name[1] = t.job
    /\ \A p \in local_files : \E j \in Jobs : p \in LocalPathsOf(j)
    /\ \A j \in Jobs :
          /\ job_pc[j] \in { "queued", "download", "discarded" } =>
                /\ LocalPathsOf(j) \cap local_files = {}
                /\ progress_by_job[j] = None
          /\ job_pc[j] \in { "pv_encode", "pv_audio", "pv_merge", "upload" } =>
                /\ LocalInput(j, job_ext[j]) \in local_files
                /\ progress_by_job[j] # None
          /\ job_pc[j] \in { "pv_audio", "pv_merge" } =>
                TempVideoPath(LocalOutput(j)) \in local_files
          /\ job_pc[j] = "pv_merge" =>
                TempAudioPath(LocalOutput(j)) \in local_files
          /\ job_pc[j] = "upload" =>
                LocalPathsOf(j) \cap local_files =
                    { LocalInput(j, job_ext[j]), LocalOutput(j) }

\* C18 witness: one job is about to merge while the other has encoded its
\* temporary video, after each has cleaned up its stale artifacts.
C18_Witness ==
    /\ job_pc["job-a"] = "pv_merge"
    /\ job_pc["job-b"] = "pv_audio"
    /\ \E t \in touched : t.job = "job-a" /\ t.target.kind = "job_progress"
    /\ \E t \in touched : t.job = "job-b" /\ t.target.kind = "file"
    /\ Cardinality(local_files) = 5

\* Every task has stopped: none is queued or running.
WorkersStopped == \A k \in Jobs : job_pc[k] \in StoppedPcs

\* The objects of a job in the bucket, recognised by the id in their key.
ObjectsOf(j) == { key \in s3_objects : key[2] = j }

\* C19: once delete_job(j) has returned, its revoke has reached the workers
\* and every task has stopped, the bucket holds no object of job j.  Stated
\* for the jobs whose input key carries one of the suffixes delete_job goes
\* through, so that what is left can only come from the interleaving.
C19_DeletedJobLeavesNoObject ==
    \A j \in Jobs :
        (/\ delete_pc[j] = "returned"
         /\ j \in revoked
         /\ WorkersStopped
         /\ job_ext[j] \in DeleteExtensions) =>
            ObjectsOf(j) = {}

\* The frame loop is blocked in the write of line 246: the encoder runs and
\* its stdin pipe is full.
ProducerBlocked ==
    /\ pc = "pv_write"
    /\ enc_state = "running"
    /\ stdin_pipe = StdinCapacity

\* The encoder is blocked in a write to its stderr pipe, which is full and
\* which process_video reads only at line 253, after the loop.
EncoderBlocked ==
    /\ enc_state = "running"
    /\ enc_pending
    /\ stderr_pipe = StderrCapacity

\* C20: the frame loop and the encoder never deadlock: in no reachable
\* state is the loop blocked on the encoder's full stdin pipe while the
\* encoder is blocked on its full stderr pipe.  From such a state neither
\* takes another step (PV_WriteFrame, PV_ReadStderr, Encoder_Consume and
\* Encoder_WriteStderr are all disabled), so the loop never ends, stdin is
\* never closed and the wait never returns.
C20_NoDeadlock == ~(ProducerBlocked /\ EncoderBlocked)

\* The step reads a frame in the frame loop (processor.py 207-208).
LoopReadsFrame == loop_decoded' = loop_decoded + 1

\* The frame about to be processed has reached the start of the scene after
\* the one the cursor is on.
NextSceneReached ==
    /\ current_scene_index + 1 < Len(scenes_analysis)
    /\ frame_number >= scenes_analysis[current_scene_index + 2].start_frame

\* The cursor is on one of the analysed scenes.
CursorInRange ==
    pc \in { "pv_loop", "pv_write", "pv_close" } =>
        /\ current_scene_index >= 0
        /\ current_scene_index <= Len(scenes) - 1

\* C21: across the frame loop current_scene_index stays in
\* 0..len(scenes)-1, never decreases, changes by at most one in a step and
\* only in a step that reads a frame, and such a step increments it exactly
\* when the frame about to be processed has reached the next scene's
\* start_frame.
C21_CursorForwardOnly ==
    /\ []CursorInRange
    /\ [][ /\ current_scene_index' >= current_scene_index
           /\ current_scene_index' <= current_scene_index + 1
           /\ current_scene_index' # current_scene_index => LoopReadsFrame
           /\ LoopReadsFrame =>
                 ((current_scene_index' = current_scene_index + 1) <=> NextSceneReached)
         ]_vars

\* C21 witness: in a source of two scenes the loop has read frames that left
\* the cursor where it was and, at the second scene's start, one that moved
\* it to the last scene, where later frames kept it.
C21_Witness ==
    /\ pc = "pv_loop"
    /\ Len(scenes) = 2
    /\ scenes[2].start_frame = 2
    /\ current_scene_index = 1
    /\ Len(written) = 4
    /\ written[2].scene = 0
    /\ written[3].scene = 1

\* process_video_task has ended by raising.
TaskRaised == pc = "t_raised"

\* process_video_task has ended, by returning or by raising.
TaskFinished == pc \in { "t_returned", "t_raised" }

\* C22: when process_video_task fails, the exception it finally raises is
\* the one its except clause caught, whatever the webhook POST and the
\* removal of the local files did in the handler.
C22_HandlerKeepsOriginalError ==
    TaskRaised =>
        /\ error # NoError
        /\ task_raised = error

\* C24: after process_video_task has finished, by returning or by raising,
\* job_progress holds no entry of the job and neither the local input nor
\* the local output exists.
C24_NothingLeftAfterTask ==
    TaskFinished =>
        /\ job_progress = None
        /\ "input" \notin files
        /\ "output" \notin files

\* C23: every task the API has queued names an input object that is in the
\* bucket, and a request that has come to its apply_async has stored the
\* input object it is about to name; a request whose upload or copy failed
\* queues nothing.
C23_QueuedOnlyAfterStored ==
    /\ \A t \in enqueued : t.input_s3_key \in s3_objects
    /\ api_req.pc = "stored" =>
          InputKey(api_req.job_id, api_req.ext) \in s3_objects
    /\ (api_req.pc = "done" /\ api_req.status # 200) =>
          api_req.job_id \notin { t.task_id : t \in enqueued }

====
